---- MODULE Spec2Model ----
(***************************************************************************)
(* Model of the response-normalisation and citation-extraction pipeline of *)
(* web_app.py: the two citation extractors and the answer formatter.       *)
(*                                                                         *)
(* Python values are tagged records: None, str (a sequence of one-         *)
(* character strings), int, list and dict (a function from key names to    *)
(* values).  An exception in flight is the value Raised, which every       *)
(* operation propagates.                                                   *)
(***************************************************************************)
EXTENDS Integers, Sequences, FiniteSets, TLC

VARIABLES
    pc,            \* position of the call under study
    rag_response,  \* argument of the two extractors
    titles,        \* outcome of _extract_document_titles_from_citations
    filenames,     \* outcome of _extract_pdf_filenames_from_citations
    body_text,     \* first argument of _finalize_output / _format_one_line_bullets
    pdf_filenames, \* second argument of _finalize_output (a sequence of strings)
    bullets,       \* result of _format_one_line_bullets(body_text)
    output         \* result of _finalize_output(body_text, pdf_filenames)

vars == <<pc, rag_response, titles, filenames, body_text, pdf_filenames, bullets, output>>

-----------------------------------------------------------------------------
(* Python values *)

None == [t |-> "none"]
Str(s) == [t |-> "str", s |-> s]
PyInt(n) == [t |-> "int", n |-> n]
List(l) == [t |-> "list", l |-> l]
Dict(d) == [t |-> "dict", d |-> d]
Raised == [t |-> "raise"]
EmptyDict == Dict(<<>>)
EmptyList == List(<<>>)
EmptyStr == Str(<<>>)

IsRaised(v) == v.t = "raise"

\* bool(v)
Truthy(v) ==
    CASE v.t = "none" -> FALSE
      [] v.t = "str"  -> v.s # <<>>
      [] v.t = "int"  -> v.n # 0
      [] v.t = "list" -> v.l # <<>>
      [] v.t = "dict" -> DOMAIN v.d # {}

\* a or b
PyOr(a, b) ==
    IF IsRaised(a) THEN Raised
    ELSE IF Truthy(a) THEN a ELSE b

\* v.get(k, default): only a dict has .get, anything else is an AttributeError
Get(v, k, default) ==
    IF IsRaised(v) THEN Raised
    ELSE IF v.t # "dict" THEN Raised
    ELSE IF k \in DOMAIN v.d THEN v.d[k] ELSE default

\* a == b on the values that can be set members here (str, int)
PyEq(a, b) ==
    /\ a.t = b.t
    /\ a.t = "str" => a.s = b.s
    /\ a.t = "int" => a.n = b.n

\* hash(v) succeeds
Hashable(v) == v.t \in {"none", "str", "int"}

RECURSIVE KeysOf(_)
\* the keys of a dict as str values, in some order (a key stands as one
\* character: only that it is a non-empty str matters to the callers)
KeysOf(ks) ==
    IF ks = {} THEN <<>>
    ELSE LET k == CHOOSE x \in ks : TRUE
         IN  <<Str(<<k>>)>> \o KeysOf(ks \ {k})

\* iter(v): a list yields its items, a str its characters, a dict its keys;
\* None and int are not iterable (TypeError)
Iter(v) ==
    CASE v.t = "list" -> [ok |-> TRUE, items |-> v.l]
      [] v.t = "str"  -> [ok |-> TRUE, items |-> [i \in 1..Len(v.s) |-> Str(<<v.s[i]>>)]]
      [] v.t = "dict" -> [ok |-> TRUE, items |-> KeysOf(DOMAIN v.d)]
      [] OTHER        -> [ok |-> FALSE, items |-> <<>>]

-----------------------------------------------------------------------------
(* Strings: sequences of one-character strings *)

PSep == "U+2029"   \* the character PARAGRAPH SEPARATOR
LSep == "U+2028"   \* the character LINE SEPARATOR

\* the characters str.strip() removes, among those the model uses
Whitespace == {" ", "\n", "\t", PSep, LSep}

UpperChars == <<"A","B","C","D","E","F","G","H","I","J","K","L","M",
                "N","O","P","Q","R","S","T","U","V","W","X","Y","Z">>
LowerChars == <<"a","b","c","d","e","f","g","h","i","j","k","l","m",
                "n","o","p","q","r","s","t","u","v","w","x","y","z">>

LowerChar(c) ==
    IF \E i \in 1..Len(UpperChars) : UpperChars[i] = c
    THEN LowerChars[CHOOSE i \in 1..Len(UpperChars) : UpperChars[i] = c]
    ELSE c

\* s.lower()
Lower(s) == [i \in 1..Len(s) |-> LowerChar(s[i])]

\* s.startswith(p)
StartsWith(s, p) == Len(s) >= Len(p) /\ SubSeq(s, 1, Len(p)) = p

\* s.endswith(p)
EndsWith(s, p) == Len(s) >= Len(p) /\ SubSeq(s, Len(s) - Len(p) + 1, Len(s)) = p

\* p in s
Contains(s, p) == \E i \in 1..(Len(s) - Len(p) + 1) : SubSeq(s, i, i + Len(p) - 1) = p

\* s.rfind(c) + 1: the 1-based position after the last c, 1 when there is none
AfterLast(s, c) ==
    IF \E i \in 1..Len(s) : s[i] = c
    THEN 1 + CHOOSE i \in 1..Len(s) : s[i] = c /\ \A j \in (i+1)..Len(s) : s[j] # c
    ELSE 1

\* os.path.basename(s) for a str: s[s.rfind('/') + 1:]
Basename(s) == SubSeq(s, AfterLast(s, "/"), Len(s))

\* s.split(c)[0]: the text before the first c, all of s when there is none
SplitFirst(s, c) ==
    IF \E i \in 1..Len(s) : s[i] = c
    THEN SubSeq(s, 1, (CHOOSE i \in 1..Len(s) : s[i] = c /\ \A j \in 1..(i-1) : s[j] # c) - 1)
    ELSE s

RECURSIVE Replace(_, _, _)
\* s.replace(old, new): the non-overlapping occurrences, leftmost first
Replace(s, old, new) ==
    IF Len(s) < Len(old) THEN s
    ELSE IF SubSeq(s, 1, Len(old)) = old
         THEN new \o Replace(SubSeq(s, Len(old) + 1, Len(s)), old, new)
         ELSE <<s[1]>> \o Replace(SubSeq(s, 2, Len(s)), old, new)

RECURSIVE LStrip(_)
\* s.lstrip()
LStrip(s) ==
    IF s # <<>> /\ s[1] \in Whitespace THEN LStrip(Tail(s)) ELSE s

RECURSIVE RStrip(_)
\* s.rstrip()
RStrip(s) ==
    IF s # <<>> /\ s[Len(s)] \in Whitespace THEN RStrip(SubSeq(s, 1, Len(s) - 1)) ELSE s

RECURSIVE Join(_, _)
\* sep.join(names)
Join(names, sep) ==
    IF names = <<>> THEN <<>>
    ELSE IF Len(names) = 1 THEN names[1]
    ELSE names[1] \o sep \o Join(Tail(names), sep)

-----------------------------------------------------------------------------
(* The citation extractors *)

TitleKey == "x-amz-bedrock-kb-document-title"
TitleKeyAlt == "x-amzn-bedrock-kb-doc-title"

RECURSIVE ExtendRefs_Overwrite(_, _, _)
\* ExtendRefs with `retrieved_refs = ...` in place of `retrieved_refs.extend(...)`
ExtendRefs_Overwrite(groups, i, acc) ==
    IF i > Len(groups) THEN List(acc)
    ELSE LET x == Get(PyOr(groups[i], EmptyDict), "retrievedReferences", EmptyList)
         IN  IF IsRaised(x) THEN Raised
             ELSE IF ~Iter(x).ok THEN Raised
             ELSE ExtendRefs_Overwrite(groups, i + 1, Iter(x).items)

RECURSIVE ExtendRefs(_, _, _)
\* for c in raw_citations: retrieved_refs.extend((c or {}).get("retrievedReferences", []))
ExtendRefs(groups, i, acc) ==
    IF i > Len(groups) THEN List(acc)
    ELSE LET x == Get(PyOr(groups[i], EmptyDict), "retrievedReferences", EmptyList)
         IN  IF IsRaised(x) THEN Raised
             ELSE IF ~Iter(x).ok THEN Raised
             ELSE ExtendRefs(groups, i + 1, acc \o Iter(x).items)

\* retrieved_refs after the shape normalisation: the value the loop iterates
RetrievedRefs(response) ==
    LET raw_citations == Get(PyOr(response, EmptyDict), "citations", EmptyList)
    IN  IF IsRaised(raw_citations) THEN Raised
        ELSE IF raw_citations.t = "dict"
             THEN Get(raw_citations, "retrievedReferences", EmptyList)
        ELSE IF raw_citations.t = "list"
             THEN ExtendRefs(raw_citations.l, 1, <<>>)
        ELSE EmptyList

\* os.path.basename(uri).split("?")[0], the uri itself when that raises
NameFromUri(uri) ==
    IF uri.t = "str" THEN Str(SplitFirst(Basename(uri.s), "?")) ELSE uri

\* s3_uri or web_url or "", both lookups evaluated first
UriOfRef(ref) ==
    LET location == PyOr(Get(PyOr(ref, EmptyDict), "location", EmptyDict), EmptyDict)
        s3_uri == Get(PyOr(Get(location, "s3Location", EmptyDict), EmptyDict), "uri", None)
        web_url == Get(PyOr(Get(location, "webLocation", EmptyDict), EmptyDict), "url", None)
    IN  IF IsRaised(s3_uri) \/ IsRaised(web_url) THEN Raised
        ELSE PyOr(PyOr(s3_uri, web_url), EmptyStr)

\* One iteration of the loop of _extract_document_titles_from_citations:
\* the value it appends (add), or that it raised.
TitleOfRef(ref) ==
    LET metadata == PyOr(Get(PyOr(ref, EmptyDict), "metadata", EmptyDict), EmptyDict)
        title == PyOr(Get(metadata, TitleKey, None), Get(metadata, TitleKeyAlt, None))
    IN  IF IsRaised(title) THEN [raised |-> TRUE, add |-> <<>>]
        ELSE IF Truthy(title) THEN [raised |-> FALSE, add |-> <<title>>]
        ELSE LET uri_or_url == UriOfRef(ref)
             IN  IF IsRaised(uri_or_url) THEN [raised |-> TRUE, add |-> <<>>]
                 ELSE IF Truthy(uri_or_url)
                      THEN LET t2 == NameFromUri(uri_or_url)
                           IN  [raised |-> FALSE,
                                add |-> IF Truthy(t2) THEN <<t2>> ELSE <<>>]
                 ELSE [raised |-> FALSE, add |-> <<>>]

\* PdfNameOk without the suffix test: `if name:`
PdfNameOk_NoSuffixCheck(name) ==
    IF ~Truthy(name) THEN [raised |-> FALSE, keep |-> FALSE]
    ELSE IF name.t # "str" THEN [raised |-> TRUE, keep |-> FALSE]
    ELSE [raised |-> FALSE, keep |-> TRUE]

\* name and name.lower().endswith(".pdf"); only a str has .lower
PdfNameOk(name) ==
    IF ~Truthy(name) THEN [raised |-> FALSE, keep |-> FALSE]
    ELSE IF name.t # "str" THEN [raised |-> TRUE, keep |-> FALSE]
    ELSE [raised |-> FALSE, keep |-> EndsWith(Lower(name.s), <<".", "p", "d", "f">>)]

\* One iteration of the loop of _extract_pdf_filenames_from_citations
FilenameOfRef(ref) ==
    LET candidate == UriOfRef(ref)
    IN  IF IsRaised(candidate) THEN [raised |-> TRUE, add |-> <<>>]
        ELSE LET name1 == IF Truthy(candidate) THEN NameFromUri(candidate) ELSE EmptyStr
                 metadata == PyOr(Get(PyOr(ref, EmptyDict), "metadata", EmptyDict), EmptyDict)
                 name == IF Truthy(name1) THEN name1
                         ELSE PyOr(PyOr(PyOr(PyOr(Get(metadata, "file_name", None),
                                                  Get(metadata, "filename", None)),
                                             Get(metadata, TitleKey, None)),
                                        Get(metadata, TitleKeyAlt, None)),
                                   EmptyStr)
             IN  IF IsRaised(name) THEN [raised |-> TRUE, add |-> <<>>]
                 ELSE LET ok == PdfNameOk(name)
                      IN  IF ok.raised THEN [raised |-> TRUE, add |-> <<>>]
                          ELSE [raised |-> FALSE, add |-> IF ok.keep THEN <<name>> ELSE <<>>]

RECURSIVE TitlesLoop(_, _, _)
\* for ref in retrieved_refs: ... titles.append(title); an exception ends the
\* loop and leaves what was appended (except Exception: pass)
TitlesLoop(refs, i, acc) ==
    IF i > Len(refs) THEN acc
    ELSE LET step == TitleOfRef(refs[i])
         IN  IF step.raised THEN acc
             ELSE TitlesLoop(refs, i + 1, acc \o step.add)

RECURSIVE FilenamesLoop(_, _, _)
FilenamesLoop(refs, i, acc) ==
    IF i > Len(refs) THEN acc
    ELSE LET step == FilenameOfRef(refs[i])
         IN  IF step.raised THEN acc
             ELSE FilenamesLoop(refs, i + 1, acc \o step.add)

\* the list `titles` when the try block of the title extractor is left
CollectTitles(response) ==
    LET retrieved_refs == RetrievedRefs(response)
    IN  IF IsRaised(retrieved_refs) \/ ~Iter(retrieved_refs).ok THEN <<>>
        ELSE TitlesLoop(Iter(retrieved_refs).items, 1, <<>>)

\* the list `filenames` when the try block of the filename extractor is left
CollectFilenames(response) ==
    LET retrieved_refs == RetrievedRefs(response)
    IN  IF IsRaised(retrieved_refs) \/ ~Iter(retrieved_refs).ok THEN <<>>
        ELSE FilenamesLoop(Iter(retrieved_refs).items, 1, <<>>)

\* DedupLoop without the `if t not in seen` test
DedupLoop_KeepAll(items, i, unique) == items

RECURSIVE DedupLoop(_, _, _)
\* for t in titles: if t not in seen: seen.add(t); unique.append(t)
DedupLoop(items, i, unique) ==
    IF i > Len(items) THEN unique
    ELSE IF \E j \in 1..Len(unique) : PyEq(unique[j], items[i])
         THEN DedupLoop(items, i + 1, unique)
         ELSE DedupLoop(items, i + 1, Append(unique, items[i]))

\* The de-duplication after the try block.  `t not in seen` hashes t, which
\* raises TypeError for a list or a dict, outside any handler.
Dedup(items) ==
    IF \E i \in 1..Len(items) : ~Hashable(items[i])
    THEN [raised |-> TRUE, list |-> <<>>]
    ELSE [raised |-> FALSE, list |-> DedupLoop(items, 1, <<>>)]

extract_document_titles_from_citations(response) == Dedup(CollectTitles(response))

extract_pdf_filenames_from_citations(response) == Dedup(CollectFilenames(response))

-----------------------------------------------------------------------------
(* Inputs of the extractors *)

MaxRefs == 2      \* references in one response
MaxGroups == 2    \* citation groups in a response with ill-typed groups
MaxUriLen == 3    \* characters of an enumerated URI

RECURSIVE Strings(_, _)
\* every string over the alphabet of at most n characters
Strings(alphabet, n) ==
    IF n = 0 THEN {<<>>}
    ELSE LET shorter == Strings(alphabet, n - 1)
         IN  shorter \cup {Append(s, c) : s \in shorter, c \in alphabet}

RECURSIVE Lists(_, _)
\* every sequence of at most n members of pool
Lists(pool, n) ==
    IF n = 0 THEN {<<>>}
    ELSE LET shorter == Lists(pool, n - 1)
         IN  shorter \cup {Append(l, x) : l \in shorter, x \in pool}

Name_a_pdf == <<"a",".","p","d","f">>
Name_b_txt == <<"b",".","t","x","t">>
Name_e_pdf == <<"e",".","p","d","f">>
Name_T == <<"T">>
Uri_a_pdf == <<"s","3",":","/","/","b","/","a",".","p","d","f","?","x","=","1">>
Uri_d_pdf == <<"s","3",":","/","/","b","/","d",".","p","d","f">>
Url_c_PDF == <<"h","t","t","p",":","/","/","h","/","c",".","P","D","F">>
ScenarioB_uri == <<"s","3",":","/","/","b","u","c","k","e","t","/","p","a","t","h","/","R","e","p","o","r","t",".","P","D","F","?","x","=","1">>
Name_Report_PDF == <<"R","e","p","o","r","t",".","P","D","F">>
Name_Guide_pdf == <<"G","u","i","d","e",".","p","d","f">>

MetaRef(k, v) == Dict([metadata |-> Dict(k :> v)])
S3Ref(u) == Dict([location |-> Dict([s3Location |-> Dict([uri |-> u])])])
WebRef(u) == Dict([location |-> Dict([webLocation |-> Dict([url |-> u])])])
BothRef(title, u) ==
    Dict([metadata |-> Dict(TitleKey :> title),
          location |-> Dict([s3Location |-> Dict([uri |-> u])])])

\* references every field of which has the documented type (None counts:
\* `ref or {}` reads it as an empty reference)
GoodRefs ==
    << MetaRef(TitleKey, Str(Name_a_pdf)),
       MetaRef(TitleKeyAlt, Str(Name_b_txt)),
       S3Ref(Str(Uri_a_pdf)),
       WebRef(Str(Url_c_PDF)),
       BothRef(Str(Name_T), Str(Uri_d_pdf)),
       MetaRef("file_name", Str(Name_e_pdf)),
       None >>

\* references with a wrong type at one nesting level
BadRefs ==
    << Str(<<"x">>),
       Dict([metadata |-> Str(<<"m">>)]),
       MetaRef(TitleKey, List(<<Str(Name_a_pdf)>>)),
       Dict([location |-> Str(<<"l">>)]),
       MetaRef(TitleKey, PyInt(7)),
       S3Ref(PyInt(5)) >>

\* the references that responses of several references are built from
RefPool == GoodRefs \o BadRefs

\* further references, each given alone in a response
LoneRefs ==
    { EmptyDict,
      MetaRef("filename", Str(Name_e_pdf)),
      Dict([metadata |-> Dict([file_name |-> Str(Name_b_txt), filename |-> Str(Name_e_pdf)])]),
      Dict([metadata |-> None, location |-> None]),
      PyInt(3),
      List(<<Str(Name_a_pdf)>>),
      MetaRef(TitleKeyAlt, PyInt(0)),
      MetaRef(TitleKey, Dict([k |-> None])),
      MetaRef("file_name", PyInt(7)),
      Dict([metadata |-> List(<<Str(Name_a_pdf)>>)]),
      Dict([location |-> PyInt(1)]),
      Dict([location |-> Dict([s3Location |-> Str(<<"s">>)])]),
      Dict([location |-> Dict([webLocation |-> PyInt(1)])]),
      Dict([location |-> Dict([s3Location |-> Dict([uri |-> Str(Uri_d_pdf)]),
                               webLocation |-> Str(<<"w">>)])]),
      Dict([location |-> Dict([s3Location |-> None,
                               webLocation |-> Dict([url |-> Str(Url_c_PDF)])])]),
      S3Ref(List(<<Str(Name_a_pdf)>>)),
      WebRef(PyInt(5)),
      WebRef(Dict([k |-> None])) }

Group(refs) == Dict([retrievedReferences |-> List(refs)])

\* { "citations": { "retrievedReferences": [...] }}
DictShape(refs) == Dict([citations |-> Group(refs)])

\* { "citations": [ { "retrievedReferences": [...] }, ... ] }
ListShape(groups) ==
    Dict([citations |-> List([i \in 1..Len(groups) |-> Group(groups[i])])])

RECURSIVE CutGroups(_, _, _, _)
\* refs[start..] cut into consecutive non-empty groups after the positions in cuts
CutGroups(refs, cuts, start, k) ==
    IF k > Len(refs) THEN <<>>
    ELSE IF k = Len(refs) THEN <<SubSeq(refs, start, k)>>
    ELSE IF k \in cuts THEN <<SubSeq(refs, start, k)>> \o CutGroups(refs, cuts, k + 1, k + 1)
    ELSE CutGroups(refs, cuts, start, k + 1)

\* groups with an empty group put at position e (none when e = 0)
InsertEmpty(groups, e) ==
    IF e = 0 THEN groups
    ELSE SubSeq(groups, 1, e - 1) \o <<(<<>>)>> \o SubSeq(groups, e, Len(groups))

\* the members of pool at the positions idx
Pick(pool, idx) == [i \in 1..Len(idx) |-> pool[idx[i]]]

\* the ways to cut a list of references into groups: <<positions in RefPool,
\* cuts, position of an empty group>>
Partitions ==
    { x \in Lists(1..Len(RefPool), MaxRefs) \X (SUBSET (1..(MaxRefs - 1))) \X (0..(MaxRefs + 1)) :
        /\ x[2] \subseteq 1..(Len(x[1]) - 1)
        /\ x[3] <= Len(CutGroups(x[1], x[2], 1, 1)) + 1 }

\* citation groups, well-typed and not
GroupPool ==
    << Group(<<MetaRef(TitleKey, Str(Name_a_pdf))>>),
       Group(<<WebRef(Str(Url_c_PDF))>>),
       EmptyDict,
       None,
       Str(<<"g">>),
       PyInt(2),
       Dict([retrievedReferences |-> None]),
       Dict([retrievedReferences |-> Str(<<"r">>)]),
       Dict([retrievedReferences |-> Dict([k |-> None])]) >>

\* responses with a wrong type above the references
MalformedTop ==
    { None, EmptyDict, EmptyStr, Str(<<"x">>), PyInt(0), PyInt(4), EmptyList,
      List(<<PyInt(1)>>),
      Dict([output |-> Dict([text |-> Str(<<"x">>)])]),
      Dict([citations |-> None]),
      Dict([citations |-> Str(<<"c">>)]),
      Dict([citations |-> PyInt(5)]),
      Dict([citations |-> EmptyDict]),
      Dict([citations |-> Dict([retrievedReferences |-> None])]),
      Dict([citations |-> Dict([retrievedReferences |-> PyInt(1)])]),
      Dict([citations |-> Dict([retrievedReferences |-> Str(<<"r">>)])]),
      Dict([citations |-> Dict([retrievedReferences |-> Dict([k |-> None])])]),
      Dict([citations |-> Dict([retrievedReferences |-> EmptyStr])]) }

UriAlphabet == {"/", "?", "a"}
PdfSuffix == <<".", "p", "d", "f">>

\* URIs: every short string, and every short string around ".pdf"
Uris ==
    LET short == Strings(UriAlphabet, MaxUriLen)
        around == Strings(UriAlphabet, MaxUriLen - 1)
    IN  short \cup {x \o PdfSuffix \o y : x \in around, y \in around}
              \cup {ScenarioB_uri}

\* a document title in metadata, mapping-of-list shape
ScenarioA == DictShape(<<MetaRef(TitleKey, Str(Name_Guide_pdf))>>)

\* an s3 uri with a query string, list-of-mappings shape
ScenarioB == ListShape(<<(<<S3Ref(Str(ScenarioB_uri))>>)>>)

\* the responses given to the extractors
IsResponse(r) ==
    \/ \E idx \in Lists(1..Len(RefPool), MaxRefs) : r = DictShape(Pick(RefPool, idx))
    \/ \E x \in Partitions :
         r = ListShape(InsertEmpty(CutGroups(Pick(RefPool, x[1]), x[2], 1, 1), x[3]))
    \/ \E gs \in Lists(1..Len(GroupPool), MaxGroups) :
         r = Dict([citations |-> List(Pick(GroupPool, gs))])
    \/ \E ref \in LoneRefs : r \in {DictShape(<<ref>>), ListShape(<<(<<ref>>)>>)}
    \/ \E u \in Uris : r \in {DictShape(<<S3Ref(Str(u))>>), ListShape(<<(<<WebRef(Str(u))>>)>>)}
    \/ r \in MalformedTop
    \/ r \in {ScenarioA, ScenarioB}

-----------------------------------------------------------------------------
(* The extractors applied to a response *)

NotCalled == [called |-> FALSE, raised |-> FALSE, list |-> <<>>]
Returned(r) == [called |-> TRUE, raised |-> r.raised, list |-> r.list]

InitExtract ==
    /\ pc = "start"
    /\ IsResponse(rag_response)
    /\ titles = NotCalled
    /\ filenames = NotCalled
    /\ body_text = None
    /\ pdf_filenames = None
    /\ bullets = None
    /\ output = <<>>

ExtractTitles ==
    /\ pc = "start"
    /\ titles' = Returned(extract_document_titles_from_citations(rag_response))
    /\ pc' = "titles"
    /\ UNCHANGED <<rag_response, filenames, body_text, pdf_filenames, bullets, output>>

ExtractPdfFilenames ==
    /\ pc = "titles"
    /\ filenames' = Returned(extract_pdf_filenames_from_citations(rag_response))
    /\ pc' = "done"
    /\ UNCHANGED <<rag_response, titles, body_text, pdf_filenames, bullets, output>>

NextExtract == ExtractTitles \/ ExtractPdfFilenames

SpecExtract == InitExtract /\ [][NextExtract]_vars

-----------------------------------------------------------------------------
(* The answer formatter *)

BulletSeparator == <<" ","-"," ">>
BulletLine == <<"\n","-"," ">>
BulletPrefix == <<"-"," ">>
BoldMarker == <<"*","*">>
SourcesPrefix == <<"S","o","u","r","c","e","s",":"," ">>
SourcesSeparator == <<","," ">>
ParagraphBreak == <<PSep, LSep>>

\* format_one_line_bullets prepending to `formatted`, not `formatted.lstrip()`
format_one_line_bullets_NoLStrip(text) ==
    IF text.t # "str" \/ ~Truthy(text) THEN text
    ELSE IF Contains(text.s, BulletSeparator)
         THEN LET formatted == Replace(text.s, BulletSeparator, BulletLine)
              IN  IF ~StartsWith(LStrip(formatted), BulletPrefix)
                  THEN Str(BulletPrefix \o formatted)
                  ELSE Str(formatted)
    ELSE text

\* _format_one_line_bullets(text)
format_one_line_bullets(text) ==
    IF text.t # "str" \/ ~Truthy(text) THEN text
    ELSE IF Contains(text.s, BulletSeparator)
         THEN LET formatted == Replace(text.s, BulletSeparator, BulletLine)
              IN  IF ~StartsWith(LStrip(formatted), BulletPrefix)
                  THEN Str(BulletPrefix \o LStrip(formatted))
                  ELSE Str(formatted)
    ELSE text

\* remove_bold_markdown with text.replace("**", "", 1): the first marker only
remove_bold_markdown_First(text) ==
    IF text.t # "str" \/ ~Truthy(text) THEN text
    ELSE IF Contains(text.s, BoldMarker)
         THEN LET i == CHOOSE k \in 1..Len(text.s) :
                         /\ k < Len(text.s)
                         /\ SubSeq(text.s, k, k + 1) = BoldMarker
                         /\ \A j \in 1..(k-1) : SubSeq(text.s, j, j + 1) # BoldMarker
              IN  Str(SubSeq(text.s, 1, i - 1) \o SubSeq(text.s, i + 2, Len(text.s)))
    ELSE text

\* _remove_bold_markdown(text)
remove_bold_markdown(text) ==
    IF text.t # "str" \/ ~Truthy(text) THEN text
    ELSE Str(Replace(text.s, BoldMarker, <<>>))

\* FinalBody without `text = text.rstrip()`
FinalBody_NoRStrip(body) ==
    remove_bold_markdown(format_one_line_bullets(PyOr(body, EmptyStr))).s

\* the body of the answer: bullets, bold removal, rstrip
FinalBody(body) ==
    RStrip(remove_bold_markdown(format_one_line_bullets(PyOr(body, EmptyStr))).s)

\* JoinSources with ','.join(pdf_filenames)
JoinSources_NoSpace(sources) ==
    Join([i \in 1..Len(sources.l) |-> sources.l[i].s], <<",">>)

\* ', '.join(pdf_filenames)
JoinSources(sources) ==
    Join([i \in 1..Len(sources.l) |-> sources.l[i].s], SourcesSeparator)

\* _finalize_output(body_text, pdf_filenames)
finalize_output(body, sources) ==
    IF Truthy(sources)
    THEN FinalBody(body) \o ParagraphBreak \o SourcesPrefix \o JoinSources(sources) \o <<"\n">>
    ELSE FinalBody(body) \o <<"\n">>

-----------------------------------------------------------------------------
(* Inputs of the formatter *)

MaxBodyLen == 5        \* characters of a body given without sources
MaxFinalBodyLen == 3   \* characters of a body given with sources
MaxSources == 2        \* names in a source list

BulletAlphabet == {" ", "-", "a", "\n"}
FinalAlphabet == {" ", "*", "a", "\n"}

ScenarioC_body == <<"P","o","i","n","t"," ","A"," ","-"," ","P","o","i","n","t"," ","B"," ","-"," ","P","o","i","n","t"," ","C">>
ScenarioC_output == <<"-"," ","P","o","i","n","t"," ","A","\n","-"," ","P","o","i","n","t"," ","B","\n","-"," ","P","o","i","n","t"," ","C","\n">>
ScenarioD_body == <<"*","*","B","o","l","d","*","*"," ","t","e","x","t">>
Name_b_pdf == <<"b",".","p","d","f">>
Name_bold_pdf == <<"*","*","c",".","p","d","f">>
Name_newline == <<"d",".","p","d","f","\n">>

ScenarioBodies ==
    { ScenarioC_body, ScenarioD_body, <<"a"," ","-"," ","-"," ","b">>, <<" "," ","A"," ","-"," ","B">>, <<"a"," ","-","*","*"," ","b">>,
      <<"-"," ","a"," ","-"," ","b">>, <<"*"," ","*","*"," ","-"," ","*","*","*">> }

\* bodies given without sources
BulletBodies ==
    {None} \cup {Str(s) : s \in Strings(BulletAlphabet, MaxBodyLen) \cup ScenarioBodies}

\* bodies given with sources
FinalBodies ==
    {None} \cup {Str(s) : s \in Strings(FinalAlphabet, MaxFinalBodyLen) \cup ScenarioBodies}

SourceNames ==
    { Str(Name_a_pdf), Str(Name_b_pdf), Str(Name_bold_pdf), Str(Name_newline), EmptyStr }

ScenarioD_sources == List(<<Str(Name_a_pdf), Str(Name_a_pdf), Str(Name_b_pdf)>>)

\* pdf_filenames: None (the default) or a list of names
SourceLists ==
    {None, ScenarioD_sources} \cup {List(l) : l \in Lists(SourceNames, MaxSources)}

InitFormat ==
    /\ pc = "start"
    /\ \/ body_text \in BulletBodies /\ pdf_filenames = None
       \/ body_text \in FinalBodies /\ pdf_filenames \in SourceLists
    /\ bullets = None
    /\ output = <<>>
    /\ rag_response = None
    /\ titles = NotCalled
    /\ filenames = NotCalled

FormatBullets ==
    /\ pc = "start"
    /\ bullets' = format_one_line_bullets(PyOr(body_text, EmptyStr))
    /\ pc' = "bullets"
    /\ UNCHANGED <<rag_response, titles, filenames, body_text, pdf_filenames, output>>

Finalize ==
    /\ pc = "bullets"
    /\ output' = finalize_output(body_text, pdf_filenames)
    /\ pc' = "done"
    /\ UNCHANGED <<rag_response, titles, filenames, body_text, pdf_filenames, bullets>>

NextFormat == FormatBullets \/ Finalize

SpecFormat == InitFormat /\ [][NextFormat]_vars

-----------------------------------------------------------------------------
(* Vocabulary of the properties: stated apart from the operators above *)

\* the elements of a sequence
Range(seq) == {seq[i] : i \in 1..Len(seq)}

\* no value occurs twice
NoDuplicates(seq) == \A i, j \in 1..Len(seq) : seq[i] = seq[j] => i = j

\* the position of the first occurrence of x in seq
FirstIndex(seq, x) == CHOOSE i \in 1..Len(seq) : seq[i] = x /\ \A j \in 1..(i-1) : seq[j] # x

\* seq holds exactly the true values of candidates, once each, ordered by
\* the position of each value's first occurrence in candidates
StableDistinct(seq, candidates) ==
    /\ NoDuplicates(seq)
    /\ \A i \in 1..Len(seq) : Truthy(seq[i])
    /\ Range(seq) = {c \in Range(candidates) : Truthy(c)}
    /\ \A i, j \in 1..Len(seq) :
         i < j => FirstIndex(candidates, seq[i]) < FirstIndex(candidates, seq[j])

\* s ends with ".pdf" in any mix of upper and lower case
EndsWithPdfAnyCase(s) ==
    /\ Len(s) >= 4
    /\ s[Len(s) - 3] = "."
    /\ s[Len(s) - 2] \in {"p", "P"}
    /\ s[Len(s) - 1] \in {"d", "D"}
    /\ s[Len(s)] \in {"f", "F"}

\* citations is a list and every group a mapping with a list of references
IsListShape(response) ==
    /\ response.t = "dict"
    /\ "citations" \in DOMAIN response.d
    /\ response.d.citations.t = "list"
    /\ \A i \in 1..Len(response.d.citations.l) :
         LET c == response.d.citations.l[i]
         IN  /\ c.t = "dict"
             /\ "retrievedReferences" \in DOMAIN c.d
             /\ c.d.retrievedReferences.t = "list"

RECURSIVE Flatten(_)
\* the references of the groups, concatenated
Flatten(groups) ==
    IF groups = <<>> THEN <<>>
    ELSE groups[1].d.retrievedReferences.l \o Flatten(Tail(groups))

\* a str or an absent (or None) value
IsStrOrNone(v) == v.t \in {"str", "none"}

\* a mapping, every value of which is a str or None; absent and None count
IsStrMapOrNone(v) == v.t = "none" \/ (v.t = "dict" /\ \A k \in DOMAIN v.d : IsStrOrNone(v.d[k]))

\* a reference typed as the data model says: optional metadata of strings,
\* optional location holding an optional s3Location.uri / webLocation.url
WellFormedRef(ref) ==
    /\ ref.t = "dict"
    /\ DOMAIN ref.d \subseteq {"metadata", "location"}
    /\ "metadata" \in DOMAIN ref.d => IsStrMapOrNone(ref.d.metadata)
    /\ "location" \in DOMAIN ref.d =>
         \/ ref.d.location.t = "none"
         \/ /\ ref.d.location.t = "dict"
            /\ DOMAIN ref.d.location.d \subseteq {"s3Location", "webLocation"}
            /\ \A k \in DOMAIN ref.d.location.d : IsStrMapOrNone(ref.d.location.d[k])

\* the references a response in mapping-of-list shape hands to an extractor
DictShapeRefs(response) == response.d.citations.d.retrievedReferences.l

IsDictShape(response) ==
    /\ response.t = "dict"
    /\ "citations" \in DOMAIN response.d
    /\ response.d.citations.t = "dict"
    /\ "retrievedReferences" \in DOMAIN response.d.citations.d
    /\ response.d.citations.d.retrievedReferences.t = "list"

\* the final path segment of a URI without its query string
LastSegmentWithoutQuery(uri) == Basename(SplitFirst(uri, "?"))

\* what an extractor returns for one name
OneName(name, keep) == IF name # <<>> /\ keep THEN <<Str(name)>> ELSE <<>>

RECURSIVE ListedNames(_)
\* the names separated by a comma and a space, built from the last name back
ListedNames(names) ==
    IF names = <<>> THEN <<>>
    ELSE IF Len(names) = 1 THEN names[1].s
    ELSE ListedNames(SubSeq(names, 1, Len(names) - 1)) \o <<",", " ">> \o names[Len(names)].s

\* the names without the repeats, first occurrences kept
DistinctNames(names) ==
    LET keep == {i \in 1..Len(names) : \A j \in 1..(i-1) : names[j] # names[i]}
        RECURSIVE pick(_)
        pick(i) == IF i > Len(names) THEN <<>>
                   ELSE (IF i \in keep THEN <<names[i]>> ELSE <<>>) \o pick(i + 1)
    IN  pick(1)

\* the Sources paragraph for the names, with its paragraph break and newline
SourcesParagraph(names) ==
    <<PSep, LSep>> \o <<"S","o","u","r","c","e","s",":"," ">> \o ListedNames(names) \o <<"\n">>

\* the answer without the appended Sources paragraph
BodyPart(answer, sources) ==
    IF Truthy(sources)
    THEN SubSeq(answer, 1, Len(answer) - Len(SourcesParagraph(sources.l)))
    ELSE answer

\* the position of the first occurrence of sep in s, 0 when there is none
Find(s, sep) ==
    IF Contains(s, sep)
    THEN CHOOSE i \in 1..Len(s) :
           /\ i + Len(sep) - 1 <= Len(s)
           /\ SubSeq(s, i, i + Len(sep) - 1) = sep
           /\ \A j \in 1..(i-1) : SubSeq(s, j, j + Len(sep) - 1) # sep
    ELSE 0

RECURSIVE SplitJoin(_, _, _)
\* new.join(s.split(sep)): s cut at each occurrence of sep, leftmost first
SplitJoin(s, sep, new) ==
    IF Find(s, sep) = 0 THEN s
    ELSE SubSeq(s, 1, Find(s, sep) - 1) \o new
           \o SplitJoin(SubSeq(s, Find(s, sep) + Len(sep), Len(s)), sep, new)

\* the body as a string (None reads as the empty string)
BodyString(body) == IF body.t = "str" THEN body.s ELSE <<>>

\* a citation group typed as the data model says
WellTypedGroup(c) ==
    /\ c.t = "dict"
    /\ "retrievedReferences" \in DOMAIN c.d
    /\ c.d.retrievedReferences.t = "list"

RECURSIVE RefsOfGroups(_)
\* the references of the well-typed groups, in order
RefsOfGroups(groups) ==
    IF groups = <<>> THEN <<>>
    ELSE (IF WellTypedGroup(groups[1]) THEN groups[1].d.retrievedReferences.l ELSE <<>>)
           \o RefsOfGroups(Tail(groups))

IsCitationList(response) ==
    /\ response.t = "dict"
    /\ "citations" \in DOMAIN response.d
    /\ response.d.citations.t = "list"

\* the references a response holds, in either shape
RefsOfResponse(response) ==
    IF IsDictShape(response) THEN DictShapeRefs(response)
    ELSE IF IsCitationList(response) THEN RefsOfGroups(response.d.citations.l)
    ELSE <<>>

-----------------------------------------------------------------------------
(* Properties of the extractors, under SpecExtract *)

\* C1: whatever the response (None, an empty mapping, a wrong type at any
\* nesting level), both extractors return a list and raise nothing.
C1_ExtractorsNeverRaise ==
    /\ titles.called => ~titles.raised
    /\ filenames.called => ~filenames.raised

\* C2: a reference that fails costs only its own entry: every well-formed
\* reference of the response, before or after it, has its entry in the
\* returned list of each extractor.
C2_OnlyTheFailingReferenceIsLost ==
    pc = "done" =>
      \A i \in 1..Len(RefsOfResponse(rag_response)) :
        LET ref == RefsOfResponse(rag_response)[i]
        IN  WellFormedRef(ref) =>
              /\ ~titles.raised => Range(TitleOfRef(ref).add) \subseteq Range(titles.list)
              /\ Range(FilenameOfRef(ref).add) \subseteq Range(filenames.list)

\* C6: a response in list-of-mappings shape gives, from each extractor, the
\* result of the mapping-of-list response holding the concatenated references.
C6_ShapeEquivalence ==
    pc = "done" /\ IsListShape(rag_response) =>
      LET flat == DictShape(Flatten(rag_response.d.citations.l))
      IN  /\ titles = Returned(extract_document_titles_from_citations(flat))
          /\ filenames = Returned(extract_pdf_filenames_from_citations(flat))

\* a response of two non-empty groups from which both extractors return names
C6_Witness ==
    /\ pc = "done"
    /\ IsListShape(rag_response)
    /\ Len(rag_response.d.citations.l) = 2
    /\ \A i \in 1..2 : rag_response.d.citations.l[i].d.retrievedReferences.l # <<>>
    /\ Len(titles.list) = 2
    /\ Len(filenames.list) = 2

C8_OnlyPdfNames ==
    /\ \A i \in 1..Len(filenames.list) :
         filenames.list[i].t = "str" /\ EndsWithPdfAnyCase(filenames.list[i].s)
    /\ pc = "done" /\ rag_response = ScenarioA => filenames.list = <<Str(Name_Guide_pdf)>>
    /\ pc = "done" /\ rag_response = ScenarioB => filenames.list = <<Str(Name_Report_PDF)>>

\* a metadata name without the suffix dropped, a location name in upper case kept
C8_Witness ==
    /\ pc = "done"
    /\ rag_response = DictShape(<<MetaRef(TitleKeyAlt, Str(Name_b_txt)), WebRef(Str(Url_c_PDF))>>)
    /\ filenames.list = <<Str(<<"c",".","P","D","F">>)>>

\* C9: the name both extractors derive from a location URI is the final
\* path segment of the URI with the query string (from the first "?") removed.
C9_NameIsLastSegmentWithoutQuery ==
    pc = "done" =>
      \A u \in Uris :
        rag_response \in {DictShape(<<S3Ref(Str(u))>>), ListShape(<<(<<WebRef(Str(u))>>)>>)} =>
          LET name == LastSegmentWithoutQuery(u)
          IN  /\ titles.list = OneName(name, TRUE)
              /\ filenames.list = OneName(name, EndsWithPdfAnyCase(name))

-----------------------------------------------------------------------------
(* Properties of the formatter, under SpecFormat *)

\* C3 as claimed: for every body and every source list the answer ends with
\* exactly one newline.
C3_ExactlyOneTrailingNewline ==
    pc = "done" => EndsWith(output, <<"\n">>) /\ ~EndsWith(output, <<"\n", "\n">>)

\* C3 as amended: the answer always ends with a newline, and with two only
\* when the source list is non-empty and its last name ends with a newline.
C3_TrailingNewline ==
    pc = "done" =>
      /\ EndsWith(output, <<"\n">>)
      /\ EndsWith(output, <<"\n", "\n">>) <=>
           /\ Truthy(pdf_filenames)
           /\ EndsWith(pdf_filenames.l[Len(pdf_filenames.l)].s, <<"\n">>)

\* a body ending with two newlines, given with a source: one newline at the end
C3_Witness ==
    /\ pc = "done"
    /\ body_text = Str(<<"a","\n","\n">>)
    /\ pdf_filenames = List(<<Str(Name_a_pdf)>>)
    /\ EndsWith(output, <<".","p","d","f","\n">>)

\* C4 as claimed: the Sources paragraph lists each distinct name once, in
\* first-seen order.
C4_SourcesListedOnce ==
    pc = "done" /\ Truthy(pdf_filenames) =>
      EndsWith(output, SourcesParagraph(DistinctNames(pdf_filenames.l)))

\* C4 as amended: the Sources paragraph lists the names as given, in order,
\* repeats included; each distinct name once when the list has no repeats.
C4_SourcesListedAsGiven ==
    pc = "done" =>
      /\ Truthy(pdf_filenames) => EndsWith(output, SourcesParagraph(pdf_filenames.l))
      /\ body_text = Str(ScenarioD_body) /\ pdf_filenames = ScenarioD_sources =>
           output = <<"B","o","l","d"," ","t","e","x","t">> \o <<PSep, LSep>> \o <<"S","o","u","r","c","e","s",":"," ","a",".","p","d","f",","," ","a",".","p","d","f",","," ","b",".","p","d","f","\n">>

\* Scenario D formatted
C4_Witness ==
    /\ pc = "done"
    /\ body_text = Str(ScenarioD_body)
    /\ pdf_filenames = ScenarioD_sources

\* C5 as claimed: the answer, Sources paragraph included, holds no "**".
C5_NoBoldMarkerInAnswer ==
    pc = "done" => ~Contains(output, BoldMarker)

\* C5 as amended: the answer before the Sources paragraph holds no "**", and
\* the whole answer holds one only when a source name does.
C5_NoBoldMarkerInBody ==
    pc = "done" =>
      /\ ~Contains(BodyPart(output, pdf_filenames), BoldMarker)
      /\ Contains(output, BoldMarker) <=>
           /\ Truthy(pdf_filenames)
           /\ \E i \in 1..Len(pdf_filenames.l) : Contains(pdf_filenames.l[i].s, BoldMarker)

\* a body with several bold markers and a Sources paragraph, none left
C5_Witness ==
    /\ pc = "done"
    /\ body_text = Str(ScenarioD_body)
    /\ pdf_filenames = List(<<Str(Name_a_pdf), Str(Name_b_pdf)>>)
    /\ ~Contains(output, BoldMarker)

\* C10 as claimed: every " - " becomes a newline and "- ", and "- " is put in
\* front, nothing else changed, when the result does not start with "- "
\* after its leading whitespace; a body without " - " is unchanged.
C10_BulletsPrependOnly ==
    pc = "done" /\ body_text.t = "str" =>
      LET replaced == SplitJoin(body_text.s, BulletSeparator, BulletLine)
      IN  bullets.s =
            IF ~Contains(body_text.s, BulletSeparator) THEN body_text.s
            ELSE IF StartsWith(LStrip(replaced), BulletPrefix) THEN replaced
            ELSE BulletPrefix \o replaced

\* C10 as amended: the occurrences of " - ", leftmost first and not
\* overlapping, become a newline and "- "; when the result does not start with
\* "- " after its leading whitespace, that whitespace is removed and "- " put
\* in front; a body without " - " is unchanged; Scenario C gives its answer.
C10_BulletNormalization ==
    pc = "done" =>
      /\ bullets.t = "str"
      /\ LET body == BodyString(body_text)
             replaced == SplitJoin(body, BulletSeparator, BulletLine)
         IN  bullets.s =
               IF ~Contains(body, BulletSeparator) THEN body
               ELSE IF StartsWith(LStrip(replaced), BulletPrefix) THEN replaced
               ELSE BulletPrefix \o LStrip(replaced)
      /\ body_text = Str(ScenarioC_body) /\ ~Truthy(pdf_filenames) => output = ScenarioC_output

\* a body with leading whitespace that gets its first bullet prepended
C10_Witness ==
    /\ pc = "done"
    /\ body_text = Str(<<" ","a"," ","-"," ">>)
    /\ bullets = Str(<<"-"," ","a","\n","-"," ">>)

====
